---------------------------- MODULE Spec2Model ----------------------------
(***************************************************************************)
(* gibberlink-tx (src/gibberlink-tx/src/main.rs): the WAV container        *)
(* writer and reader, the multi-channel down-mix, the decode retry loop    *)
(* around the ggwave modem and the exit paths of main.                     *)
(*                                                                         *)
(* Byte buffers that are only read (WavData.data, the payload handed to    *)
(* write_wav) are held as [len, pat]: the buffer has len bytes and byte k  *)
(* (from 0) is pat[(k % Len(pat)) + 1].  A buffer whose pattern is as long *)
(* as the buffer is an arbitrary buffer; a short pattern lets a frame of   *)
(* 65535 channels be an input without a 131070-element tuple in every      *)
(* state.  Buffers the program builds (the file, the output of the         *)
(* down-mix) are plain sequences of bytes.                                 *)
(***************************************************************************)
EXTENDS Integers, Sequences, FiniteSets, TLC

VARIABLES
    overflow_checks,  \* build profile: TRUE = debug (overflow panics), FALSE = release (wraps)
    file,             \* the file at the path a run reads or writes: [exists, bytes]
    src,              \* what the input file was built from (history only, never read by the program)
    wr,               \* write_wav: its arguments and its result
    rd,               \* read_wav: its locals and its result
    w,                \* the WavData handed to downmix_to_mono
    dm,               \* downmix_to_mono: its locals and its result
    mn,               \* main and decode_wav_with_ggwave: arguments, locals, the modem instance, the exit
    prev              \* how the run before this one ended (history only)

vars == <<overflow_checks, file, src, wr, rd, w, dm, mn, prev>>

---------------------------------------------------------------------------
(* Bounds of the model *)

MaxPat == 2      \* longest sample pattern of an input buffer, in 16-bit samples
MaxLen == 9      \* longest small input buffer, in bytes
MaxCh == 3       \* largest small channel count
MaxChunks == 3   \* most chunks in an input file
MaxData == 2     \* longest "data" chunk of an input file and longest payload written, in bytes
MaxRuns == 2     \* runs of the program in a row

---------------------------------------------------------------------------
(* Integer types *)

U16_MAX == 65535
I16_MIN == -32768
I16_MAX == 32767
I32_MAX == 2147483647
I32_MIN == -I32_MAX - 1

Min(a, b) == IF a <= b THEN a ELSE b
Max(a, b) == IF a >= b THEN a ELSE b

\* i32 `+`: whether a + s leaves the type (the model checker's integers are
\* themselves 32 bits wide, so the sum is not formed before it is known to fit)
AddOverflowsI32(a, s) ==
    \/ s > 0 /\ a > I32_MAX - s
    \/ s < 0 /\ a < I32_MIN - s

\* a + s in two's complement when it overflows (release build arithmetic)
AddWrapI32(a, s) ==
    IF s > 0 THEN (a + I32_MIN) + (s + I32_MIN)
    ELSE (a - I32_MIN) + (s - I32_MIN)

\* i16::from_le_bytes([b0, b1])
i16_from_le_bytes(b0, b1) ==
    LET u == b0 + 256 * b1 IN IF u >= 32768 THEN u - 65536 ELSE u

\* i16::to_le_bytes
i16_to_le_bytes(v) ==
    LET u == v % 65536 IN <<u % 256, u \div 256>>

\* a floored quotient, which is not Rust's on a negative sum
FloorDivBug(a, b) == a \div b

\* Rust's i32 `/`: the quotient truncated toward zero
i32_div(a, b) == IF a >= 0 THEN a \div b ELSE -((-a) \div b)

\* Ord::clamp
clamp(x, lo, hi) == IF x < lo THEN lo ELSE IF x > hi THEN hi ELSE x

\* u32 values are held as two 16-bit halves, [hi, lo], the value being
\* hi * 65536 + lo: the model checker's integers stop at 2^31 - 1.
U32Of(n) == [hi |-> n \div 65536, lo |-> n % 65536]
U32_MAX == [hi |-> 65535, lo |-> 65535]

\* u32::to_le_bytes, u16::to_le_bytes
u32_to_le_bytes(v) == <<v.lo % 256, v.lo \div 256, v.hi % 256, v.hi \div 256>>
u16_to_le_bytes(n) == <<n % 256, n \div 256>>

read_le_u16(buf) == buf[1] + 256 * buf[2]
read_le_u32(buf) == [hi |-> buf[3] + 256 * buf[4], lo |-> buf[1] + 256 * buf[2]]

\* u32 `*` by a small factor and u32 `+` of a small term: the wrapped value
\* and whether the exact result left the type
MulU32(v, k) ==
    LET lo == v.lo * k
        hi == v.hi * k + lo \div 65536
    IN [value |-> [hi |-> hi % 65536, lo |-> lo % 65536], overflow |-> hi >= 65536]
AddU32(k, v) ==
    LET lo == v.lo + k
        hi == v.hi + lo \div 65536
    IN [value |-> [hi |-> hi % 65536, lo |-> lo % 65536], overflow |-> hi >= 65536]

\* `as usize` of a u32, for the values the model's integers hold
FitsInt(v) == v.hi < 32768
AsInt(v) == v.hi * 65536 + v.lo

---------------------------------------------------------------------------
(* ggwave sample formats (ggwave_consts) *)

GGWAVE_SAMPLE_FORMAT_UNDEFINED == 0
GGWAVE_SAMPLE_FORMAT_U8 == 1
GGWAVE_SAMPLE_FORMAT_I8 == 2
GGWAVE_SAMPLE_FORMAT_U16 == 3
GGWAVE_SAMPLE_FORMAT_I16 == 4
GGWAVE_SAMPLE_FORMAT_F32 == 5

---------------------------------------------------------------------------
(* Read-only byte buffers *)

Buf(s) == [len |-> Len(s), pat |-> s]
BufLen(d) == d.len
\* w.data[idx]; the caller checks idx < len (the slice's bounds check)
BufAt(d, idx) == d.pat[(idx % Len(d.pat)) + 1]
\* the buffer as a sequence of bytes
BufBytes(d) == [k \in 1..d.len |-> BufAt(d, k - 1)]

---------------------------------------------------------------------------
(* Results: Ok, Err(message), or a panic that aborts the process *)

NoRes == [kind |-> "none", text |-> "", tag |-> 0, bits |-> 0, fmt |-> 0, bytes |-> Buf(<<>>)]
Ok == [NoRes EXCEPT !.kind = "Ok"]
Err(t) == [NoRes EXCEPT !.kind = "Err", !.text = t]
OkMono(f, b) == [NoRes EXCEPT !.kind = "Ok", !.fmt = f, !.bytes = b]
ErrFmt(t, tag, bits) == [NoRes EXCEPT !.kind = "Err", !.text = t, !.tag = tag, !.bits = bits]
Panic(t) == [NoRes EXCEPT !.kind = "panic", !.text = t]

---------------------------------------------------------------------------
(* write_wav *)

RIFF == <<82, 73, 70, 70>>
WAVE == <<87, 65, 86, 69>>
FMT_ == <<102, 109, 116, 32>>
DATA == <<100, 97, 116, 97>>

NoFile == [exists |-> FALSE, bytes |-> <<>>]
FileOf(b) == [exists |-> TRUE, bytes |-> b]

\* the match on sample_format
BitsPerSample(sample_format) ==
    IF sample_format = GGWAVE_SAMPLE_FORMAT_I16 THEN 16
    ELSE IF sample_format = GGWAVE_SAMPLE_FORMAT_U8 THEN 8
    ELSE IF sample_format = GGWAVE_SAMPLE_FORMAT_F32 THEN 32
    ELSE IF sample_format = GGWAVE_SAMPLE_FORMAT_I8 THEN 8
    ELSE IF sample_format = GGWAVE_SAMPLE_FORMAT_U16 THEN 16
    ELSE 16

\* byte_rate = sample_rate * num_channels as u32 * (bits_per_sample as u32 / 8),
\* left to right in u32
ByteRate(sample_rate, num_channels, bits_per_sample) ==
    LET a == MulU32(sample_rate, num_channels)
        b == MulU32(a.value, bits_per_sample \div 8)
    IN [value |-> b.value, overflow |-> a.overflow \/ b.overflow]

\* the 44-byte header and the payload, in the order of the write_all calls
WavBytes(riff_chunk_size, num_channels, sample_rate, byte_rate, block_align, bits_per_sample, data_len, data) ==
    RIFF \o u32_to_le_bytes(riff_chunk_size) \o WAVE
    \o FMT_ \o u32_to_le_bytes(U32Of(16)) \o u16_to_le_bytes(1)
    \o u16_to_le_bytes(num_channels) \o u32_to_le_bytes(sample_rate)
    \o u32_to_le_bytes(byte_rate) \o u16_to_le_bytes(block_align)
    \o u16_to_le_bytes(bits_per_sample)
    \o DATA \o u32_to_le_bytes(data_len) \o BufBytes(data)

WrIdle == [pc |-> "idle", sample_rate |-> U32Of(0), sample_format |-> 0,
           data |-> Buf(<<>>), io |-> "ok", res |-> NoRes]
WrCall(sample_rate, sample_format, data, io) ==
    [pc |-> "call", sample_rate |-> sample_rate, sample_format |-> sample_format,
     data |-> data, io |-> io, res |-> NoRes]

\* what the file holds when a write fails part-way: the destination's
\* contents are then whatever had been flushed
PartialWrites(bytes) == {SubSeq(bytes, 1, k) : k \in {0, 12, 44} \cap (0..Len(bytes))}

\* write_wav, lines 128-165.  wr.io is the environment: "ok", "create"
\* (File::create fails) or "write" (a write_all or the flush fails).
WriteWav ==
    /\ wr.pc = "call"
    /\ LET num_channels == 1
           bits_per_sample == BitsPerSample(wr.sample_format)
           byte_rate == ByteRate(wr.sample_rate, num_channels, bits_per_sample)
           block_align == num_channels * (bits_per_sample \div 8)
           data_len == U32Of(BufLen(wr.data))
           riff_chunk_size == AddU32(36, data_len)
           bytes == WavBytes(riff_chunk_size.value, num_channels, wr.sample_rate,
                             byte_rate.value, block_align, bits_per_sample,
                             data_len, wr.data)
       IN  IF wr.io = "create"
           THEN /\ wr' = [wr EXCEPT !.pc = "done", !.res = Err("io")]
                /\ file' = file
           ELSE IF overflow_checks /\ byte_rate.overflow
           THEN /\ wr' = [wr EXCEPT !.pc = "done", !.res = Panic("attempt to multiply with overflow")]
                /\ file' = FileOf(<<>>)
           ELSE IF overflow_checks /\ riff_chunk_size.overflow
           THEN /\ wr' = [wr EXCEPT !.pc = "done", !.res = Panic("attempt to add with overflow")]
                /\ file' = FileOf(<<>>)
           ELSE IF wr.io = "write"
           THEN /\ wr' = [wr EXCEPT !.pc = "done", !.res = Err("io")]
                /\ \E part \in PartialWrites(bytes) : file' = FileOf(part)
           ELSE /\ wr' = [wr EXCEPT !.pc = "done", !.res = Ok]
                /\ file' = FileOf(bytes)
    /\ UNCHANGED <<overflow_checks, src, rd, w, dm, mn, prev>>

---------------------------------------------------------------------------
(* read_wav *)

NoWav == [sample_rate |-> U32Of(0), channels |-> 0, bits_per_sample |-> 0,
          format_tag |-> 0, data |-> Buf(<<>>)]

RdIdle == [pc |-> "idle", pos |-> 0, fmt_chunk_found |-> FALSE, data_chunk_found |-> FALSE,
           format_tag |-> 1, channels |-> 1, sample_rate |-> U32Of(44100),
           bits_per_sample |-> 16, data |-> <<>>, res |-> NoRes, wav |-> NoWav,
           hdrs |-> <<>>, eof |-> FALSE]
RdCall == [RdIdle EXCEPT !.pc = "call"]

\* the bytes at pos .. pos + n - 1 (pos from 0)
Slice(bytes, pos, n) == SubSeq(bytes, pos + 1, pos + n)

\* lines 180-192: open, the 12-byte header, the locals
ReadWavOpen ==
    /\ rd.pc = "call"
    /\ IF ~file.exists
       THEN rd' = [rd EXCEPT !.pc = "done", !.res = Err("open")]
       ELSE IF Len(file.bytes) < 12
       THEN rd' = [rd EXCEPT !.pc = "done", !.res = Err("read header")]
       ELSE IF Slice(file.bytes, 0, 4) # RIFF \/ Slice(file.bytes, 8, 4) # WAVE
       THEN rd' = [rd EXCEPT !.pc = "done", !.res = Err("Not a RIFF/WAVE file")]
       ELSE rd' = [rd EXCEPT !.pc = "loop", !.pos = 12]
    /\ UNCHANGED <<overflow_checks, file, src, wr, w, dm, mn, prev>>

\* a scan that reads no pad byte
AfterPadNever(len, after, size) == after

\* the position after the pad byte of a chunk that ends at `after`: one byte
\* is read when len is odd, and a failed read is ignored
AfterPad(len, after, size) ==
    IF len % 2 = 1 /\ after < size THEN after + 1 ELSE after

\* a scan that ends at the first of the two chunks
BothFoundOr(fmt_chunk_found, data_chunk_found) == fmt_chunk_found \/ data_chunk_found

\* whether the chunk that has just been read ends the scan
BothFound(fmt_chunk_found, data_chunk_found) == fmt_chunk_found /\ data_chunk_found

\* lines 194-214: one turn of the loop
ReadWavChunk ==
    /\ rd.pc = "loop"
    /\ LET size == Len(file.bytes) IN
       IF rd.pos + 8 > size
       THEN rd' = [rd EXCEPT !.pc = "end", !.eof = TRUE]
       ELSE
       LET id == Slice(file.bytes, rd.pos, 4)
           len32 == read_le_u32(Slice(file.bytes, rd.pos + 4, 4))
       IN  IF ~FitsInt(len32) \/ rd.pos + 8 + AsInt(len32) > size
           THEN rd' = [rd EXCEPT !.pc = "done", !.res = Err("read chunk"),
                         !.hdrs = Append(@, [at |-> rd.pos, len |-> len32, next |-> -1])]
           ELSE
           LET len == AsInt(len32)
               chunk == Slice(file.bytes, rd.pos + 8, len)
               next == AfterPad(len, rd.pos + 8 + len, size)
               seen == [rd EXCEPT !.pos = next,
                          !.hdrs = Append(@, [at |-> rd.pos, len |-> len32, next |-> next])]
           IN  IF id = FMT_
               THEN IF len < 16
                    THEN rd' = [seen EXCEPT !.pc = "done", !.res = Err("fmt chunk too small")]
                    ELSE rd' = [seen EXCEPT
                                  !.format_tag = read_le_u16(Slice(chunk, 0, 2)),
                                  !.channels = read_le_u16(Slice(chunk, 2, 2)),
                                  !.sample_rate = read_le_u32(Slice(chunk, 4, 4)),
                                  !.bits_per_sample = read_le_u16(Slice(chunk, 14, 2)),
                                  !.fmt_chunk_found = TRUE,
                                  !.pc = IF BothFound(TRUE, rd.data_chunk_found)
                                         THEN "end" ELSE "loop"]
               ELSE IF id = DATA
               THEN rd' = [seen EXCEPT !.data = chunk, !.data_chunk_found = TRUE,
                             !.pc = IF BothFound(rd.fmt_chunk_found, TRUE)
                                    THEN "end" ELSE "loop"]
               ELSE rd' = [seen EXCEPT
                             !.pc = IF BothFound(rd.fmt_chunk_found, rd.data_chunk_found)
                                    THEN "end" ELSE "loop"]
    /\ UNCHANGED <<overflow_checks, file, src, wr, w, dm, mn, prev>>

\* lines 215-218: the result
ReadWavReturn ==
    /\ rd.pc = "end"
    /\ IF ~rd.fmt_chunk_found \/ ~rd.data_chunk_found
       THEN rd' = [rd EXCEPT !.pc = "done", !.res = Err("Missing fmt or data chunk")]
       ELSE rd' = [rd EXCEPT !.pc = "done", !.res = Ok,
                     !.wav = [sample_rate |-> rd.sample_rate, channels |-> rd.channels,
                              bits_per_sample |-> rd.bits_per_sample,
                              format_tag |-> rd.format_tag, data |-> Buf(rd.data)]]
    /\ UNCHANGED <<overflow_checks, file, src, wr, w, dm, mn, prev>>

---------------------------------------------------------------------------
(* downmix_to_mono *)

\* a mono branch that takes PCM of every other width as 16-bit PCM
MonoFormatAnyPcm(format_tag, bits_per_sample) ==
    IF format_tag = 1 /\ bits_per_sample = 8 THEN GGWAVE_SAMPLE_FORMAT_U8
    ELSE IF format_tag = 1 THEN GGWAVE_SAMPLE_FORMAT_I16
    ELSE IF format_tag = 3 /\ bits_per_sample = 32 THEN GGWAVE_SAMPLE_FORMAT_F32
    ELSE -1

\* the match of the mono branch: the ggwave format, or -1 for the `_` arm
MonoFormat(format_tag, bits_per_sample) ==
    IF format_tag = 1 /\ bits_per_sample = 8 THEN GGWAVE_SAMPLE_FORMAT_U8
    ELSE IF format_tag = 1 /\ bits_per_sample = 16 THEN GGWAVE_SAMPLE_FORMAT_I16
    ELSE IF format_tag = 3 /\ bits_per_sample = 32 THEN GGWAVE_SAMPLE_FORMAT_F32
    ELSE -1

\* the match of the multi-channel branch: bytes per sample, or 0 for the `_` arm
MultiWidth(format_tag, bits_per_sample) ==
    IF format_tag = 1 /\ bits_per_sample = 16 THEN 2
    ELSE IF format_tag = 1 /\ bits_per_sample = 8 THEN 1
    ELSE IF format_tag = 3 /\ bits_per_sample = 32 THEN 4
    ELSE 0

DmIdle == [pc |-> "idle", width |-> 0, frame_count |-> 0, i |-> 0, ch |-> 0,
           acc |-> 0, facc |-> <<>>, out |-> <<>>, res |-> NoRes,
           top |-> -1, ovf |-> FALSE]
DmCall == [DmIdle EXCEPT !.pc = "call"]

\* lines 223-234, 249, 264: the mono branch, the match, frame_count
DownmixCall ==
    /\ dm.pc = "call"
    /\ IF w.channels = 1
       THEN LET f == MonoFormat(w.format_tag, w.bits_per_sample) IN
            dm' = [dm EXCEPT !.pc = "done",
                     !.res = IF f = -1
                             THEN ErrFmt("Unsupported WAV format tag", w.format_tag, w.bits_per_sample)
                             ELSE OkMono(f, w.data)]
       ELSE LET bw == MultiWidth(w.format_tag, w.bits_per_sample) IN
            IF bw = 0
            THEN dm' = [dm EXCEPT !.pc = "done",
                          !.res = ErrFmt("Unsupported multi-channel WAV format tag",
                                         w.format_tag, w.bits_per_sample)]
            ELSE IF bw * w.channels = 0
            THEN dm' = [dm EXCEPT !.pc = "done", !.res = Panic("attempt to divide by zero")]
            ELSE dm' = [dm EXCEPT !.pc = "frame", !.width = bw,
                          !.frame_count = BufLen(w.data) \div (bw * w.channels),
                          !.i = 0, !.out = <<>>]
    /\ UNCHANGED <<overflow_checks, file, src, wr, rd, w, mn, prev>>

\* `for i in 0..frame_count`: the next frame, or the Ok at the end of the arm
DownmixFrame ==
    /\ dm.pc = "frame"
    /\ IF dm.i < dm.frame_count
       THEN dm' = [dm EXCEPT !.pc = "sample", !.acc = 0, !.facc = <<>>, !.ch = 0]
       ELSE dm' = [dm EXCEPT !.pc = "done",
                     !.res = OkMono(CASE dm.width = 2 -> GGWAVE_SAMPLE_FORMAT_I16
                                      [] dm.width = 1 -> GGWAVE_SAMPLE_FORMAT_U8
                                      [] OTHER -> GGWAVE_SAMPLE_FORMAT_F32,
                                    Buf(dm.out))]
    /\ UNCHANGED <<overflow_checks, file, src, wr, rd, w, mn, prev>>

\* idx of the sample of channel ch in frame i
SampleIdx(i, channels, ch, width) == (i * channels + ch) * width

\* the sample read at idx, as the integer the arm adds to acc
SampleAt(d, idx, width) ==
    IF width = 2 THEN i16_from_le_bytes(BufAt(d, idx), BufAt(d, idx + 1))
    ELSE BufAt(d, idx)

\* `for ch in 0..channels { ...; acc += s }`: one sample
DownmixSample ==
    /\ dm.pc = "sample"
    /\ dm.ch < w.channels
    /\ LET idx == SampleIdx(dm.i, w.channels, dm.ch, dm.width)
           last == idx + dm.width - 1
       IN  IF last >= BufLen(w.data)
           THEN dm' = [dm EXCEPT !.pc = "done", !.res = Panic("index out of bounds")]
           ELSE IF dm.width = 4
           THEN dm' = [dm EXCEPT !.ch = @ + 1, !.top = Max(@, last),
                         !.facc = Append(@, <<BufAt(w.data, idx), BufAt(w.data, idx + 1),
                                              BufAt(w.data, idx + 2), BufAt(w.data, idx + 3)>>)]
           ELSE LET s == SampleAt(w.data, idx, dm.width) IN
                IF ~AddOverflowsI32(dm.acc, s)
                THEN dm' = [dm EXCEPT !.ch = @ + 1, !.top = Max(@, last), !.acc = @ + s]
                ELSE IF overflow_checks
                THEN dm' = [dm EXCEPT !.pc = "done", !.ovf = TRUE, !.top = Max(@, last),
                              !.res = Panic("attempt to add with overflow")]
                ELSE dm' = [dm EXCEPT !.ch = @ + 1, !.top = Max(@, last), !.ovf = TRUE,
                              !.acc = AddWrapI32(@, s)]
    /\ UNCHANGED <<overflow_checks, file, src, wr, rd, w, mn, prev>>

\* the bytes a frame's average adds to out
AvgBytes(acc, facc, channels, width) ==
    CASE width = 2 -> i16_to_le_bytes(clamp(i32_div(acc, channels), I16_MIN, I16_MAX))
      [] width = 1 -> <<clamp(i32_div(acc, channels), 0, 255)>>
      [] OTHER -> [k \in 1..4 |-> [f32_sum |-> facc, f32_div |-> channels, byte |-> k - 1]]

\* the end of the inner loop: the average of the frame is pushed
DownmixAvg ==
    /\ dm.pc = "sample"
    /\ dm.ch >= w.channels
    /\ dm' = [dm EXCEPT !.pc = "frame", !.i = @ + 1,
                !.out = @ \o AvgBytes(dm.acc, dm.facc, w.channels, dm.width)]
    /\ UNCHANGED <<overflow_checks, file, src, wr, rd, w, mn, prev>>

---------------------------------------------------------------------------
(* Text and number conversions of main *)

Whitespace == {9, 10, 11, 12, 13, 32}

\* str::trim_end
RECURSIVE trim_end(_)
trim_end(s) ==
    IF s # <<>> /\ s[Len(s)] \in Whitespace THEN trim_end(SubSeq(s, 1, Len(s) - 1)) ELSE s

\* whether String::from_utf8 accepts the bytes from position i on
RECURSIVE from_utf8_ok(_, _)
from_utf8_ok(s, i) ==
    LET Cont(j, lo, hi) == j <= Len(s) /\ s[j] >= lo /\ s[j] <= hi IN
    IF i > Len(s) THEN TRUE
    ELSE LET b == s[i] IN
         IF b < 128 THEN from_utf8_ok(s, i + 1)
         ELSE IF b >= 194 /\ b <= 223
         THEN Cont(i + 1, 128, 191) /\ from_utf8_ok(s, i + 2)
         ELSE IF b >= 224 /\ b <= 239
         THEN /\ Cont(i + 1, IF b = 224 THEN 160 ELSE 128, IF b = 237 THEN 159 ELSE 191)
              /\ Cont(i + 2, 128, 191) /\ from_utf8_ok(s, i + 3)
         ELSE IF b >= 240 /\ b <= 244
         THEN /\ Cont(i + 1, IF b = 240 THEN 144 ELSE 128, IF b = 244 THEN 143 ELSE 191)
              /\ Cont(i + 2, 128, 191) /\ Cont(i + 3, 128, 191) /\ from_utf8_ok(s, i + 4)
         ELSE FALSE

\* "{:02x}"
HexDigit(d) == IF d < 10 THEN 48 + d ELSE 87 + d
HexBytes(s) ==
    [k \in 1..(2 * Len(s)) |->
        IF k % 2 = 1 THEN HexDigit(s[(k + 1) \div 2] \div 16) ELSE HexDigit(s[k \div 2] % 16)]

\* what the decode mode prints for a payload
Printed(bytes) ==
    IF from_utf8_ok(bytes, 1) THEN bytes \o <<10>>
    ELSE <<48, 120>> \o HexBytes(bytes) \o <<10>>

\* `as f32` of a u32: the nearest value with a 24-bit significand, ties to
\* even; [hi, lo] again, hi = 65536 standing for 2^32
u32_as_f32(v) ==
    IF v.hi < 256 THEN v
    ELSE LET top == CHOOSE k \in 8..15 : 2^k <= v.hi /\ v.hi < 2^(k + 1)
             unit == 2^(top - 7)
             rem == v.lo % unit
             down == v.lo - rem
             odd == (down \div unit) % 2 = 1
             up == 2 * rem > unit \/ (2 * rem = unit /\ odd)
             lo == IF up THEN down + unit ELSE down
         IN [hi |-> v.hi + lo \div 65536, lo |-> lo % 65536]

\* `as u32` of an f32 that holds a whole number: saturating
f32_as_u32(f) == IF f.hi >= 65536 THEN U32_MAX ELSE f

---------------------------------------------------------------------------
(* main and decode_wav_with_ggwave *)

NoText == <<-1>>       \* args.text = None

NoStderr == [prefix |-> "", text |-> ""]

MnIdle == [pc |-> "idle", run |-> 1,
           decode_wav |-> FALSE, text |-> NoText, stdin |-> <<>>, stdin_ok |-> TRUE,
           sample_rate |-> <<>>, play |-> FALSE,
           inst |-> "none", inited |-> FALSE, frees |-> 0, bad_use |-> FALSE,
           sampleRateOut |-> U32Of(0), nbytes |-> 0,
           cap |-> 0, caps |-> <<>>, ns |-> <<>>, written |-> <<>>, decoded |-> NoRes,
           stdout |-> <<>>, stderr |-> NoStderr, warned |-> FALSE, status |-> -1]

\* process::exit(status) after eprintln!(prefix, text); a return from main is status 0
Exit(m, status, prefix, text) ==
    [m EXCEPT !.pc = "exit", !.status = status, !.stderr = [prefix |-> prefix, text |-> text]]
\* a panic ends the process with status 101
Abort(m, text) == Exit(m, 101, "panicked: ", text)

\* ggwave_free(instance)
ggwave_free(m) ==
    [m EXCEPT !.inst = "freed", !.frees = @ + 1, !.bad_use = @ \/ m.inst # "live"]
\* a call of ggwave_encode or ggwave_ndecode on the instance
ModemCall(m) == [m EXCEPT !.bad_use = @ \/ m.inst # "live"]

\* lines 362-398: the arguments, the mode, the text
MainStart ==
    /\ mn.pc = "main"
    /\ IF mn.decode_wav
       THEN /\ mn' = [mn EXCEPT !.pc = "read_wav"]
            /\ rd' = RdCall
       ELSE /\ rd' = rd
            /\ IF mn.text = NoText /\ ~mn.stdin_ok
               THEN mn' = Abort(mn, "failed to read stdin")
               ELSE LET text == IF mn.text = NoText THEN trim_end(mn.stdin) ELSE mn.text IN
                    IF text = <<>>
                    THEN mn' = Exit(mn, 1, "", "No text provided")
                    ELSE mn' = [mn EXCEPT !.pc = "tx_init", !.text = text]
    /\ UNCHANGED <<overflow_checks, file, src, wr, w, dm, prev>>

\* line 283: `read_wav(path)?`
DecodeRead ==
    /\ mn.pc = "read_wav" /\ rd.pc = "done"
    /\ IF rd.res.kind = "Ok"
       THEN /\ w' = rd.wav /\ dm' = DmCall
            /\ mn' = [mn EXCEPT !.pc = "downmix"]
       ELSE /\ UNCHANGED <<w, dm>>
            /\ mn' = [mn EXCEPT !.pc = "decode_ret", !.decoded = Err(rd.res.text)]
    /\ UNCHANGED <<overflow_checks, file, src, wr, rd, prev>>

\* lines 284-295: `downmix_to_mono(&wav)?`, the parameters, ggwave_init
DecodeInit ==
    /\ mn.pc = "downmix" /\ dm.pc = "done"
    /\ IF dm.res.kind = "panic"
       THEN mn' = Abort(mn, dm.res.text)
       ELSE IF dm.res.kind = "Err"
       THEN mn' = [mn EXCEPT !.pc = "decode_ret", !.decoded = Err(dm.res.text)]
       ELSE \E instance \in {-1, 0} :
               IF instance < 0
               THEN mn' = [mn EXCEPT !.pc = "decode_ret", !.decoded = Err("ggwave init failed")]
               ELSE mn' = [mn EXCEPT !.pc = "decode_loop", !.inst = "live", !.inited = TRUE,
                             !.cap = 256]
    /\ UNCHANGED <<overflow_checks, file, src, wr, rd, w, dm, prev>>

\* what ggwave_ndecode can return for an output buffer of cap bytes: -2 (the
\* payload does not fit), -1 or 0 (nothing decoded), or the payload's length
DecodeResults(cap) == {-2, -1, 0, 1, 3, 256}

\* the bytes the modem writes for a payload of n bytes
ModemPayload(n) == [k \in 1..n |-> CASE k = 1 -> 104 [] k = 2 -> 195 [] k = 3 -> 169
                                     [] OTHER -> 255]

\* a ceiling that refuses the capacity 65536 itself
CapOverCeilingOffByOne(cap) == cap >= 65536

\* `cap > 65536`
CapOverCeiling(cap) == cap > 65536

\* Vec::truncate
Truncate(out, n) == SubSeq(out, 1, Min(n, Len(out)))

\* lines 296-309: one turn of the retry loop
DecodeLoop ==
    /\ mn.pc = "decode_loop"
    /\ \E n \in DecodeResults(mn.cap) :
          LET called == [ModemCall(mn) EXCEPT !.caps = Append(@, mn.cap), !.ns = Append(@, n)]
              out == [k \in 1..mn.cap |-> IF k <= n THEN ModemPayload(n)[k] ELSE 0]
          IN  IF n = -2
              THEN IF CapOverCeiling(mn.cap * 2)
                   THEN mn' = [called EXCEPT !.pc = "decode_free", !.cap = @ * 2,
                                 !.decoded = Err("Decoded payload too large")]
                   ELSE mn' = [called EXCEPT !.cap = @ * 2]
              ELSE IF n <= 0
              THEN mn' = [called EXCEPT !.pc = "decode_free",
                            !.decoded = Err("No payload decoded")]
              ELSE mn' = [called EXCEPT !.pc = "decode_free", !.written = ModemPayload(n),
                            !.decoded = [Ok EXCEPT !.bytes = Buf(Truncate(out, n))]]
    /\ UNCHANGED <<overflow_checks, file, src, wr, rd, w, dm, prev>>

\* lines 310-311: the instance is released and the result returned
DecodeFree ==
    /\ mn.pc = "decode_free"
    /\ mn' = [ggwave_free(mn) EXCEPT !.pc = "decode_ret"]
    /\ UNCHANGED <<overflow_checks, file, src, wr, rd, w, dm, prev>>

\* lines 367-383: the payload is printed, or the failure reported
DecodeExitWith(m, status) == Exit(m, status, "Decode failed: ", m.decoded.text)

\* a receive run that reports a failed ggwave_init with the transmit status 2
DecodeExitAsInitFailure(m) ==
    DecodeExitWith(m, IF m.decoded.text = "ggwave init failed" THEN 2 ELSE 6)

\* lines 379-382: every failure of the receive pipeline exits with 6
DecodeExit(m) == DecodeExitWith(m, 6)

MainDecoded ==
    /\ mn.pc = "decode_ret"
    /\ IF mn.decoded.kind = "Ok"
       THEN mn' = [Exit(mn, 0, "", "") EXCEPT !.stdout = Printed(BufBytes(mn.decoded.bytes))]
       ELSE mn' = DecodeExit(mn)
    /\ UNCHANGED <<overflow_checks, file, src, wr, rd, w, dm, prev>>

\* the sample rate ggwave_getDefaultParameters gives
DefaultSampleRate == 48000

\* lines 400-411: the parameters and ggwave_init
TxInit ==
    /\ mn.pc = "tx_init"
    /\ LET rate == IF mn.sample_rate = <<>> THEN U32Of(DefaultSampleRate)
                   ELSE u32_as_f32(mn.sample_rate[1])
       IN \E instance \in {-1, 0} :
             IF instance < 0
             THEN mn' = Exit(mn, 2, "", "Failed to init ggwave")
             ELSE mn' = [mn EXCEPT !.pc = "tx_query", !.inst = "live", !.inited = TRUE,
                           !.sampleRateOut = rate]
    /\ UNCHANGED <<overflow_checks, file, src, wr, rd, w, dm, prev>>

\* lines 413-431: the size query
TxQuery ==
    /\ mn.pc = "tx_query"
    /\ \E nbytes \in {-1, 0, 2, 3} :
          IF nbytes <= 0
          THEN mn' = Exit(ggwave_free(ModemCall(mn)), 3, "", "ggwave_encode size query failed")
          ELSE mn' = [ModemCall(mn) EXCEPT !.pc = "tx_encode", !.nbytes = nbytes]
    /\ UNCHANGED <<overflow_checks, file, src, wr, rd, w, dm, prev>>

\* a size-mismatch exit that does not release the instance
MismatchExitLeaks(m) == Exit(m, 4, "", "ggwave_encode wrote")

\* the exit of the size-mismatch branch
MismatchExit(m) == Exit(ggwave_free(m), 4, "", "ggwave_encode wrote")

\* lines 433-452: the encode, the release, the call of write_wav
TxEncode ==
    /\ mn.pc = "tx_encode"
    /\ \E nwritten \in {mn.nbytes, mn.nbytes - 1, -1} :
          IF nwritten # mn.nbytes
          THEN /\ mn' = MismatchExit(ModemCall(mn))
               /\ wr' = wr
          ELSE /\ mn' = [ggwave_free(ModemCall(mn)) EXCEPT !.pc = "write_wav"]
               /\ \E io \in {"ok", "create", "write"} :
                     wr' = WrCall(f32_as_u32(mn.sampleRateOut), GGWAVE_SAMPLE_FORMAT_I16,
                                  Buf([k \in 1..mn.nbytes |-> 7 * k]), io)
    /\ UNCHANGED <<overflow_checks, file, src, rd, w, dm, prev>>

\* lines 452-465: the outcome of write_wav, the report, the playback
TxWritten ==
    /\ mn.pc = "write_wav" /\ wr.pc = "done"
    /\ IF wr.res.kind = "panic"
       THEN mn' = Abort(mn, wr.res.text)
       ELSE IF wr.res.kind = "Err"
       THEN mn' = Exit(mn, 5, "", "Failed to write WAV")
       ELSE IF mn.play
       THEN \E played \in BOOLEAN :
               mn' = [Exit(mn, 0, "", IF played THEN "" ELSE "Playback failed")
                         EXCEPT !.warned = ~played, !.stdout = <<"Wrote", BufLen(wr.data)>>]
       ELSE mn' = [Exit(mn, 0, "", "") EXCEPT !.stdout = <<"Wrote", BufLen(wr.data)>>]
    /\ UNCHANGED <<overflow_checks, file, src, wr, rd, w, dm, prev>>

---------------------------------------------------------------------------
(* Inputs of the down-mix *)

SampleSet == {-32768, -1, 100, 200, 32767}

RECURSIVE PatternsOf(_)
PatternsOf(n) ==
    IF n = 0 THEN {<<>>}
    ELSE {i16_to_le_bytes(s) \o p : s \in SampleSet, p \in PatternsOf(n - 1)}

Patterns == UNION {PatternsOf(n) : n \in 1..MaxPat}

Formats == {<<1, 16>>, <<1, 8>>, <<3, 32>>, <<1, 24>>, <<3, 16>>}

WavOf(tag, bits, channels, rate, data) ==
    [sample_rate |-> rate, channels |-> channels, bits_per_sample |-> bits,
     format_tag |-> tag, data |-> data]

SmallWavs ==
    {WavOf(f[1], f[2], c, U32Of(44100), [len |-> n, pat |-> p]) :
        f \in Formats, c \in (0..MaxCh) \cup {U16_MAX}, n \in 0..MaxLen, p \in Patterns}

\* one frame of 65535 channels, every sample at an extreme, and trailing bytes
WideWavs ==
    {WavOf(1, 16, U16_MAX, U32Of(44100), [len |-> 2 * U16_MAX + 3, pat |-> i16_to_le_bytes(s)]) :
        s \in {I16_MIN, I16_MAX}}
    \cup {WavOf(1, 8, U16_MAX, U32Of(44100), [len |-> U16_MAX + 1, pat |-> <<255>>])}

NoSrc == [kind |-> "none", chunks |-> <<>>]
NoPrev == [run |-> 0, status |-> -1, stderr |-> NoStderr, warned |-> FALSE, decode_wav |-> FALSE]

InitDownmix ==
    /\ overflow_checks \in BOOLEAN
    /\ file = NoFile /\ src = NoSrc /\ wr = WrIdle /\ rd = RdIdle
    /\ mn = MnIdle /\ prev = NoPrev
    /\ w \in SmallWavs \cup WideWavs
    /\ dm = DmCall

NextDownmix == DownmixCall \/ DownmixFrame \/ DownmixSample \/ DownmixAvg

SpecDownmix == InitDownmix /\ [][NextDownmix]_vars

---------------------------------------------------------------------------
(* Properties of the down-mix *)

\* the integer value of sample k (from 0) of a buffer of the given width
IntSample(d, k, width) ==
    IF width = 2
    THEN LET u == BufAt(d, 2 * k) + 256 * BufAt(d, 2 * k + 1)
         IN IF u >= 32768 THEN u - 65536 ELSE u
    ELSE BufAt(d, k)

\* the sum of samples lo..hi of a buffer, by halving
RECURSIVE SumSamples(_, _, _, _)
SumSamples(d, lo, hi, width) ==
    IF lo > hi THEN 0
    ELSE IF lo = hi THEN IntSample(d, lo, width)
    ELSE LET mid == (lo + hi) \div 2
         IN SumSamples(d, lo, mid, width) + SumSamples(d, mid + 1, hi, width)

\* q is sum / n with the fraction dropped (rounded toward zero)
IsTruncatedQuotient(q, sum, n) ==
    LET r == sum - q * n
    IN IF sum >= 0 THEN 0 <= r /\ r < n ELSE -n < r /\ r <= 0

IntegerPcm == w.format_tag = 1 /\ w.bits_per_sample \in {8, 16}
PcmWidth == w.bits_per_sample \div 8
WholeFrames == BufLen(w.data) \div (w.channels * PcmWidth)

\* C1: for a buffer of two or more channels in 16-bit signed or 8-bit unsigned
\* PCM the down-mix returns floor(len / (channels * width)) samples in frame
\* order, sample i being the sum of frame i's channel samples divided by the
\* channel count, rounded toward zero, within [-32768, 32767] or [0, 255]; the
\* 32-bit accumulator never overflows, up to 65535 channels; no byte past the
\* last whole frame is read.
C1_DownmixAverages ==
    (w.channels >= 2 /\ IntegerPcm) =>
        /\ ~dm.ovf
        /\ dm.res.kind \in {"none", "Ok"}
        /\ dm.top < WholeFrames * w.channels * PcmWidth
        /\ dm.pc = "done" =>
              /\ dm.res.kind = "Ok"
              /\ BufLen(dm.res.bytes) = WholeFrames * PcmWidth
              /\ \A i \in 0..(WholeFrames - 1) :
                    LET o == IntSample(dm.res.bytes, i, PcmWidth)
                        sum == SumSamples(w.data, i * w.channels,
                                          i * w.channels + w.channels - 1, PcmWidth)
                    IN /\ IsTruncatedQuotient(o, sum, w.channels)
                       /\ IF PcmWidth = 2 THEN o >= -32768 /\ o <= 32767
                          ELSE o >= 0 /\ o <= 255

\* the frame (100, 200) gave 150 and a trailing partial frame was left alone
C1_Witness ==
    /\ dm.pc = "done" /\ w.channels = 2 /\ w.format_tag = 1 /\ w.bits_per_sample = 16
    /\ BufLen(w.data) = 7
    /\ w.data.pat = <<100, 0, 200, 0>>
    /\ BufBytes(dm.res.bytes) = <<150, 0>>

SupportedEncodings == {<<1, 8>>, <<1, 16>>, <<3, 32>>}

\* C2 as stated: reducing a one-channel buffer always succeeds and returns
\* the input bytes, whatever the format tag and the bit depth.
C2_Original ==
    (dm.pc = "done" /\ w.channels = 1) =>
        /\ dm.res.kind = "Ok"
        /\ BufBytes(dm.res.bytes) = BufBytes(w.data)

\* C2 amended: reducing a one-channel buffer in a supported encoding (PCM 8,
\* PCM 16, float 32) succeeds and returns the input bytes byte-for-byte,
\* whatever the data length; in any other encoding it fails with the
\* unsupported-format error that names the tag and the bit depth.
C2_MonoIdentity ==
    (dm.pc = "done" /\ w.channels = 1) =>
        IF <<w.format_tag, w.bits_per_sample>> \in SupportedEncodings
        THEN /\ dm.res.kind = "Ok"
             /\ BufBytes(dm.res.bytes) = BufBytes(w.data)
        ELSE /\ dm.res.kind = "Err"
             /\ dm.res.tag = w.format_tag /\ dm.res.bits = w.bits_per_sample

\* a one-channel buffer of odd length passed through
C2_Witness ==
    /\ dm.pc = "done" /\ w.channels = 1 /\ w.format_tag = 1 /\ w.bits_per_sample = 16
    /\ BufLen(w.data) = 5
    /\ dm.res.kind = "Ok" /\ BufBytes(dm.res.bytes) = BufBytes(w.data)

\* C10: the down-mix ends with a mono buffer or with the unsupported-format
\* error for every buffer the reader can return (channel count 0 included);
\* it never aborts.
C10_Total ==
    dm.pc = "done" => dm.res.kind \in {"Ok", "Err"}

---------------------------------------------------------------------------
(* Inputs of the WAV reader and writer *)

LIST == <<76, 73, 83, 84>>

FmtA == [format_tag |-> 1, channels |-> 1, sample_rate |-> U32Of(48000), bits_per_sample |-> 16]
FmtB == [format_tag |-> 3, channels |-> 2, sample_rate |-> U32Of(44100), bits_per_sample |-> 32]

FmtChunks ==
    {[id |-> "fmt ", len |-> 14, f |-> FmtA], [id |-> "fmt ", len |-> 16, f |-> FmtA],
     [id |-> "fmt ", len |-> 16, f |-> FmtB], [id |-> "fmt ", len |-> 17, f |-> FmtB]}
DataChunks == {[id |-> "data", len |-> n, f |-> FmtA] : n \in 0..MaxData}
ListChunks == {[id |-> "LIST", len |-> n, f |-> FmtA] : n \in 1..2}
ChunkOptions == FmtChunks \cup DataChunks \cup ListChunks

RECURSIVE ChunkLists(_)
ChunkLists(n) ==
    IF n = 0 THEN {<<>>}
    ELSE {<<>>} \cup {<<c>> \o l : c \in ChunkOptions, l \in ChunkLists(n - 1)}

\* the payload of chunk j of a file: a "data" payload names its chunk
FmtPayload(f) ==
    u16_to_le_bytes(f.format_tag) \o u16_to_le_bytes(f.channels)
    \o u32_to_le_bytes(f.sample_rate) \o <<0, 0, 0, 0>> \o <<0, 0>>
    \o u16_to_le_bytes(f.bits_per_sample) \o <<238, 238>>
ChunkPayload(c, j) ==
    CASE c.id = "fmt " -> SubSeq(FmtPayload(c.f), 1, c.len)
      [] c.id = "data" -> [k \in 1..c.len |-> 16 * j + k]
      [] OTHER -> [k \in 1..c.len |-> 200 + k]
ChunkId(c) ==
    CASE c.id = "fmt " -> FMT_ [] c.id = "data" -> DATA [] OTHER -> LIST
ChunkBytes(c, j) ==
    ChunkId(c) \o u32_to_le_bytes(U32Of(c.len)) \o ChunkPayload(c, j)
    \o (IF c.len % 2 = 1 THEN <<0>> ELSE <<>>)

RECURSIVE ChunksBytes(_, _)
ChunksBytes(l, j) ==
    IF l = <<>> THEN <<>> ELSE ChunkBytes(Head(l), j) \o ChunksBytes(Tail(l), j + 1)

RiffHeader == RIFF \o <<0, 0, 0, 0>> \o WAVE
CompleteFile(l) == RiffHeader \o ChunksBytes(l, 1)
DropLast(s, n) == SubSeq(s, 1, Len(s) - n)

\* the input files: well-formed ones, ones whose last (odd) chunk has no pad
\* byte, ones cut inside the last chunk, and ones that are no RIFF/WAVE file
InputFiles ==
    {[file |-> FileOf(CompleteFile(l)), src |-> [kind |-> "complete", chunks |-> l]] :
        l \in ChunkLists(MaxChunks)}
    \cup {[file |-> FileOf(DropLast(CompleteFile(l), 1)),
           src |-> [kind |-> IF l[Len(l)].len % 2 = 1 THEN "nopad" ELSE "cut", chunks |-> l]] :
             l \in ChunkLists(MaxChunks) \ {<<>>}}
    \cup {[file |-> FileOf(<<82, 73, 70, 71>> \o <<0, 0, 0, 0>> \o WAVE \o ChunksBytes(l, 1)),
           src |-> [kind |-> "not riff", chunks |-> l]] : l \in ChunkLists(1)}
    \cup {[file |-> FileOf(<<82, 73, 70>>), src |-> [kind |-> "short", chunks |-> <<>>]],
          [file |-> NoFile, src |-> [kind |-> "absent", chunks |-> <<>>]]}

SampleRates ==
    {U32Of(0), U32Of(8000), U32Of(48000), U32Of(1073741824),
     [hi |-> 32767, lo |-> 65535], [hi |-> 32768, lo |-> 0], U32_MAX}
SampleFormats == 0..6
Payloads == {Buf([k \in 1..n |-> 7 * k]) : n \in 0..(MaxData + 1)}

InitWav ==
    /\ overflow_checks \in BOOLEAN
    /\ w = NoWav /\ dm = DmIdle /\ mn = MnIdle /\ prev = NoPrev
    /\ \/ /\ \E i \in InputFiles : file = i.file /\ src = i.src
          /\ rd = RdCall /\ wr = WrIdle
       \/ /\ file = NoFile /\ src = NoSrc /\ rd = RdIdle
          /\ \E r \in SampleRates, f \in SampleFormats, d \in Payloads,
                io \in {"ok", "create", "write"} : wr = WrCall(r, f, d, io)

\* the written file is read back
RoundTrip ==
    /\ wr.pc = "done" /\ file.exists /\ rd.pc = "idle"
    /\ rd' = RdCall
    /\ UNCHANGED <<overflow_checks, file, src, wr, w, dm, mn, prev>>

NextWav == WriteWav \/ RoundTrip \/ ReadWavOpen \/ ReadWavChunk \/ ReadWavReturn

SpecWav == InitWav /\ [][NextWav]_vars

---------------------------------------------------------------------------
(* Properties of the WAV reader *)

\* the first chunk of l at which both a "fmt " and a "data" chunk have been
\* met, and the first "fmt " chunk of l shorter than 16 bytes; Len(l) + 1
\* when there is none
MetBy(l, k, id) == \E j \in 1..k : l[j].id = id
StopAt(l) ==
    LET ks == {k \in 1..Len(l) : MetBy(l, k, "fmt ") /\ MetBy(l, k, "data")}
    IN IF ks = {} THEN Len(l) + 1 ELSE CHOOSE k \in ks : \A m \in ks : k <= m
ShortAt(l) ==
    LET ks == {k \in 1..Len(l) : l[k].id = "fmt " /\ l[k].len < 16}
    IN IF ks = {} THEN Len(l) + 1 ELSE CHOOSE k \in ks : \A m \in ks : k <= m
\* the last chunk with this identifier among the first k chunks of l
LastOf(l, k, id) ==
    CHOOSE j \in 1..k : l[j].id = id /\ \A m \in (j + 1)..k : l[m].id # id

WellFormedInput == src.kind = "complete"
Failed(text) == rd.res.kind = "Err" /\ rd.res.text = text /\ rd.wav = NoWav

\* C3 as stated: after a valid header and any sequence of complete chunks
\* the reader returns a buffer exactly when a "fmt " and a "data" chunk both
\* occur, reads no chunk header past the first point where both have been
\* met, and fails with the missing-chunk error, exposing no buffer, when the
\* end of the stream is reached first.
C3_Original ==
    WellFormedInput =>
        /\ Len(rd.hdrs) <= Min(StopAt(src.chunks), Len(src.chunks))
        /\ rd.pc = "done" =>
              /\ (rd.res.kind = "Ok") <=> (StopAt(src.chunks) <= Len(src.chunks))
              /\ (rd.eof /\ StopAt(src.chunks) > Len(src.chunks))
                    => Failed("Missing fmt or data chunk")

\* C3 amended: after a valid header and any sequence of complete chunks the
\* reader returns a buffer exactly when a "fmt " and a "data" chunk both occur
\* and no "fmt " chunk up to the point where both have been met is shorter
\* than 16 bytes (such a chunk fails the read at once with the malformed-fmt
\* error); it reads no chunk header past that point, so later chunks neither
\* change nor fail the result; when the end of the stream is reached with one
\* of the two never found it fails with the missing-chunk error; no failure
\* exposes a buffer.
C3_StopsWhenBothFound ==
    WellFormedInput =>
        LET l == src.chunks
            n == Len(l)
            k == StopAt(l)
            b == ShortAt(l)
        IN /\ Len(rd.hdrs) <= Min(k, n)
           /\ rd.pc = "done" =>
                 /\ (rd.res.kind = "Ok") <=> (k <= n /\ b > k)
                 /\ (k <= n /\ b > k) =>
                       /\ Len(rd.hdrs) = k
                       /\ LET f == l[LastOf(l, k, "fmt ")].f
                              d == LastOf(l, k, "data")
                          IN /\ rd.wav.format_tag = f.format_tag
                             /\ rd.wav.channels = f.channels
                             /\ rd.wav.sample_rate = f.sample_rate
                             /\ rd.wav.bits_per_sample = f.bits_per_sample
                             /\ BufBytes(rd.wav.data) = [x \in 1..l[d].len |-> 16 * d + x]
                 /\ b <= Min(k, n) => Failed("fmt chunk too small") /\ Len(rd.hdrs) = b
                 /\ (k > n /\ b > n) => rd.eof /\ Failed("Missing fmt or data chunk")

\* a result that a later, malformed "fmt " chunk did not fail
C3_Witness ==
    /\ rd.pc = "done" /\ WellFormedInput /\ rd.res.kind = "Ok"
    /\ Len(src.chunks) = 3 /\ Len(rd.hdrs) = 2
    /\ src.chunks[1].id = "data" /\ src.chunks[2].id = "fmt "
    /\ src.chunks[3].id = "fmt " /\ src.chunks[3].len < 16

\* the outcome the known chunks of l determine
Outcome(l) ==
    IF ShortAt(l) <= Min(StopAt(l), Len(l)) THEN "fmt chunk too small"
    ELSE IF StopAt(l) <= Len(l) THEN ""
    ELSE "Missing fmt or data chunk"
IsKnown(c) == c.id \in {"fmt ", "data"}

\* C6: after a chunk of odd declared length, known or not, the reader
\* consumes exactly one pad byte before it reads the next chunk header (none
\* when the stream ends with the payload) and after a chunk of even length
\* none, so that every chunk header after the first (at offset 12) is read at
\* offset 8 + length + (length mod 2) from the start of the chunk before it;
\* chunks with unknown identifiers do not affect the result.
C6_PadAndSkip ==
    /\ \A j \in 1..Len(rd.hdrs) :
          LET h == rd.hdrs[j] IN
          /\ h.at = IF j = 1 THEN 12
                    ELSE rd.hdrs[j - 1].at + 8 + AsInt(rd.hdrs[j - 1].len)
                         + (AsInt(rd.hdrs[j - 1].len) % 2)
          /\ h.next # -1 =>
                h.next - (h.at + 8 + AsInt(h.len)) =
                    IF h.at + 8 + AsInt(h.len) < Len(file.bytes) THEN AsInt(h.len) % 2 ELSE 0
          /\ j < Len(rd.hdrs) => h.next - (h.at + 8 + AsInt(h.len)) = AsInt(h.len) % 2
    /\ (rd.pc = "done" /\ WellFormedInput) =>
          /\ rd.res.text = Outcome(SelectSeq(src.chunks, IsKnown))
          /\ rd.res.kind = "Ok" =>
                LET d == LastOf(src.chunks, Len(rd.hdrs), "data")
                IN BufBytes(rd.wav.data) = [x \in 1..src.chunks[d].len |-> 16 * d + x]

\* an unknown chunk of odd length was skipped with its pad byte and the
\* chunks after it were read
C6_Witness ==
    /\ rd.pc = "done" /\ WellFormedInput /\ rd.res.kind = "Ok"
    /\ Len(rd.hdrs) = 3
    /\ src.chunks[1].id = "LIST" /\ src.chunks[1].len = 1
    /\ rd.hdrs[2].at = 12 + 8 + 1 + 1

---------------------------------------------------------------------------
(* Properties of the WAV writer *)

\* sample_rate * k without a width: hi is not reduced
ExactProduct(v, k) ==
    [hi |-> v.hi * k + (v.lo * k) \div 65536, lo |-> (v.lo * k) % 65536]

StatedBits(sample_format) ==
    CASE sample_format \in {4, 3} -> 16
      [] sample_format \in {1, 2} -> 8
      [] sample_format = 5 -> 32
      [] OTHER -> 16

\* C4: for every u32 sample rate, every format tag and every payload
\* write_wav emits 44 + data_length bytes: "RIFF", 36 + data_length, "WAVE",
\* "fmt ", 16, 1, 1, sample_rate, byte_rate, block_align, bits_per_sample,
\* "data", data_length, payload, each integer field equal to the stated
\* value, byte_rate being sample_rate * 1 * (bits_per_sample / 8).
C4_HeaderExact ==
    (wr.pc = "done" /\ wr.io = "ok") =>
        LET b == file.bytes
            bits == StatedBits(wr.sample_format)
            n == BufLen(wr.data)
        IN /\ wr.res.kind = "Ok"
           /\ Len(b) = 44 + n
           /\ Slice(b, 0, 4) = RIFF
           /\ AsInt(read_le_u32(Slice(b, 4, 4))) = 36 + n
           /\ Slice(b, 8, 4) = WAVE
           /\ Slice(b, 12, 4) = FMT_
           /\ AsInt(read_le_u32(Slice(b, 16, 4))) = 16
           /\ read_le_u16(Slice(b, 20, 2)) = 1
           /\ read_le_u16(Slice(b, 22, 2)) = 1
           /\ read_le_u32(Slice(b, 24, 4)) = wr.sample_rate
           /\ read_le_u32(Slice(b, 28, 4)) = ExactProduct(wr.sample_rate, bits \div 8)
           /\ read_le_u16(Slice(b, 32, 2)) = bits \div 8
           /\ read_le_u16(Slice(b, 34, 2)) = bits
           /\ Slice(b, 36, 4) = DATA
           /\ AsInt(read_le_u32(Slice(b, 40, 4))) = n
           /\ Slice(b, 44, n) = BufBytes(wr.data)

\* C5: a mono buffer in a supported encoding, of any sample rate and any
\* payload length, is read back from the file write_wav makes of it with the
\* same sample rate, bit depth and bytes, and one channel.
C5_RoundTrip ==
    (wr.pc = "done" /\ wr.io = "ok"
        /\ wr.sample_format \in {GGWAVE_SAMPLE_FORMAT_U8, GGWAVE_SAMPLE_FORMAT_I16,
                                 GGWAVE_SAMPLE_FORMAT_F32}) =>
        /\ wr.res.kind = "Ok"
        /\ rd.pc = "done" =>
              /\ rd.res.kind = "Ok"
              /\ rd.wav.sample_rate = wr.sample_rate
              /\ rd.wav.bits_per_sample = StatedBits(wr.sample_format)
              /\ rd.wav.channels = 1
              /\ BufBytes(rd.wav.data) = BufBytes(wr.data)

---------------------------------------------------------------------------
(* Runs of the program *)

FmtOf(tag, channels, bits) ==
    [id |-> "fmt ", len |-> 16,
     f |-> [format_tag |-> tag, channels |-> channels, sample_rate |-> U32Of(48000),
            bits_per_sample |-> bits]]
DataOf(n) == [id |-> "data", len |-> n, f |-> FmtA]

\* the chunk lists of the files a run decodes
DecodedLists ==
    {<<FmtOf(1, 1, 16), DataOf(2)>>,
     <<[id |-> "LIST", len |-> 1, f |-> FmtA], FmtOf(1, 2, 16), DataOf(5)>>,
     <<DataOf(3), FmtOf(1, 2, 8)>>,
     <<FmtOf(3, 1, 32), DataOf(4)>>,
     <<FmtOf(1, 0, 16), DataOf(2)>>,
     <<FmtOf(1, 1, 24), DataOf(3)>>,
     <<FmtOf(1, 2, 24), DataOf(6)>>,
     <<FmtOf(1, 1, 16)>>,
     <<[id |-> "fmt ", len |-> 14, f |-> FmtA], DataOf(2)>>}

DecodedFiles ==
    {[file |-> FileOf(CompleteFile(l)), src |-> [kind |-> "complete", chunks |-> l]] :
        l \in DecodedLists}
    \cup {[file |-> FileOf(DropLast(CompleteFile(<<FmtOf(1, 1, 16), DataOf(2)>>), 1)),
           src |-> [kind |-> "cut", chunks |-> <<FmtOf(1, 1, 16), DataOf(2)>>]],
          [file |-> FileOf(<<82, 73, 70, 71>> \o <<0, 0, 0, 0>> \o WAVE),
           src |-> [kind |-> "not riff", chunks |-> <<>>]],
          [file |-> FileOf(<<82, 73, 70>>), src |-> [kind |-> "short", chunks |-> <<>>]],
          [file |-> NoFile, src |-> [kind |-> "absent", chunks |-> <<>>]]}

CliSampleRates ==
    {<<>>, <<U32Of(48000)>>, <<[hi |-> 256, lo |-> 1]>>, <<[hi |-> 32768, lo |-> 0]>>,
     <<U32_MAX>>}

\* the states main can start in: a decode of a file, or a transmission
Starts ==
    {[file |-> i.file, src |-> i.src, mn |-> [MnIdle EXCEPT !.pc = "main", !.decode_wav = TRUE]] :
        i \in DecodedFiles}
    \cup {[file |-> NoFile, src |-> NoSrc,
           mn |-> [MnIdle EXCEPT !.pc = "main", !.text = a.text, !.stdin = a.stdin,
                     !.stdin_ok = a.stdin_ok, !.sample_rate = r, !.play = p]] :
             a \in {[text |-> <<>>, stdin |-> <<>>, stdin_ok |-> TRUE],
                    [text |-> <<104, 105>>, stdin |-> <<>>, stdin_ok |-> TRUE],
                    [text |-> NoText, stdin |-> <<>>, stdin_ok |-> FALSE],
                    [text |-> NoText, stdin |-> <<10>>, stdin_ok |-> TRUE],
                    [text |-> NoText, stdin |-> <<104, 105, 10>>, stdin_ok |-> TRUE]},
             r \in CliSampleRates, p \in BOOLEAN}

InitMain ==
    /\ overflow_checks \in BOOLEAN
    /\ wr = WrIdle /\ rd = RdIdle /\ w = NoWav /\ dm = DmIdle /\ prev = NoPrev
    /\ \E s \in Starts : file = s.file /\ src = s.src /\ mn = s.mn

\* the program is run again, by a caller that has seen how the last run ended
Rerun ==
    /\ mn.pc = "exit" /\ mn.run < MaxRuns
    /\ prev' = [run |-> mn.run, status |-> mn.status, stderr |-> mn.stderr,
                warned |-> mn.warned, decode_wav |-> mn.decode_wav]
    /\ wr' = WrIdle /\ rd' = RdIdle /\ w' = NoWav /\ dm' = DmIdle
    /\ \E s \in Starts :
          file' = s.file /\ src' = s.src /\ mn' = [s.mn EXCEPT !.run = mn.run + 1]
    /\ UNCHANGED overflow_checks

NextMain ==
    \/ MainStart \/ ReadWavOpen \/ ReadWavChunk \/ ReadWavReturn \/ DecodeRead
    \/ DownmixCall \/ DownmixFrame \/ DownmixSample \/ DownmixAvg
    \/ DecodeInit \/ DecodeLoop \/ DecodeFree \/ MainDecoded
    \/ TxInit \/ TxQuery \/ TxEncode \/ WriteWav \/ TxWritten
    \/ Rerun

SpecMain == InitMain /\ [][NextMain]_vars

---------------------------------------------------------------------------
(* Properties of a run *)

\* the failure class of the specification's taxonomy that a message on the
\* error stream reports
FailureClass(e) ==
    CASE e.prefix = "panicked: " -> "panic"
      [] e.text = "" -> "none"
      [] e.text = "Playback failed" -> "PlaybackUnavailable"
      [] e.text = "No text provided" -> "EmptyInput"
      [] e.text \in {"Failed to init ggwave", "ggwave init failed"} -> "ModemInitFailed"
      [] e.text = "ggwave_encode size query failed" -> "EncodeQueryFailed"
      [] e.text = "ggwave_encode wrote" -> "EncodeSizeMismatch"
      [] e.text \in {"Failed to write WAV", "open", "read header", "read chunk"} -> "IoFailure"
      [] e.text = "Not a RIFF/WAVE file" -> "NotARiffFile"
      [] e.text = "fmt chunk too small" -> "MalformedFmtChunk"
      [] e.text = "Missing fmt or data chunk" -> "MissingRequiredChunk"
      [] e.text \in {"Unsupported WAV format tag", "Unsupported multi-channel WAV format tag"}
            -> "UnsupportedSampleFormat"
      [] e.text = "No payload decoded" -> "NoPayloadDecoded"
      [] e.text = "Decoded payload too large" -> "DecodedPayloadTooLarge"
      [] OTHER -> "unclassified"

FatalClasses ==
    {"NotARiffFile", "MalformedFmtChunk", "MissingRequiredChunk", "UnsupportedSampleFormat",
     "IoFailure", "EncodeQueryFailed", "EncodeSizeMismatch", "NoPayloadDecoded",
     "DecodedPayloadTooLarge", "ModemInitFailed", "EmptyInput"}

\* C7 as stated: two runs that end in different failure classes end with
\* different exit statuses, whichever pipeline each ran; a failed playback
\* alone leaves the status at success.
C7_Original ==
    mn.pc = "exit" =>
        /\ FailureClass(mn.stderr) = "PlaybackUnavailable" => mn.status = 0
        /\ FailureClass(mn.stderr) \in FatalClasses => mn.status # 0
        /\ (/\ prev.run > 0
            /\ FailureClass(prev.stderr) \in FatalClasses
            /\ FailureClass(mn.stderr) \in FatalClasses
            /\ FailureClass(prev.stderr) # FailureClass(mn.stderr))
              => prev.status # mn.status

TransmitStatus(class) ==
    CASE class = "EmptyInput" -> 1
      [] class = "ModemInitFailed" -> 2
      [] class = "EncodeQueryFailed" -> 3
      [] class = "EncodeSizeMismatch" -> 4
      [] class = "IoFailure" -> 5
      [] OTHER -> -1

\* C7 amended: in the transmit pipeline each failure class ends the process
\* with a status of its own (EmptyInput 1, ModemInitFailed 2,
\* EncodeQueryFailed 3, EncodeSizeMismatch 4, IoFailure 5); in the receive
\* pipeline every failure class (NotARiffFile, MalformedFmtChunk,
\* MissingRequiredChunk, UnsupportedSampleFormat, IoFailure, NoPayloadDecoded,
\* DecodedPayloadTooLarge, ModemInitFailed) ends it with the one status 6,
\* which no transmit failure has, so that two runs ending in different
\* failure classes end with different statuses unless both are receive runs;
\* a failed playback alone leaves the status at success.
C7_ExitStatuses ==
    mn.pc = "exit" =>
        LET c == FailureClass(mn.stderr)
            a == FailureClass(prev.stderr)
        IN /\ c # "unclassified"
           /\ c \in {"PlaybackUnavailable", "none"} => mn.status = 0
           /\ (c \in FatalClasses /\ ~mn.decode_wav) => mn.status = TransmitStatus(c)
           /\ (c \in FatalClasses /\ mn.decode_wav) => mn.status = 6
           /\ (prev.run > 0 /\ a \in FatalClasses /\ c \in FatalClasses /\ a # c
                  /\ ~(prev.decode_wav /\ mn.decode_wav))
                 => prev.status # mn.status

\* a receive run that found no payload, after a transmit run that ended with
\* success although its playback had failed
C7_Witness ==
    /\ mn.pc = "exit" /\ mn.decode_wav /\ FailureClass(mn.stderr) = "NoPayloadDecoded"
    /\ prev.run > 0 /\ ~prev.decode_wav /\ prev.warned /\ prev.status = 0

\* C8: whatever the modem's decode call returns, the retry loop ends after a
\* bounded number of calls: the first call has a capacity of 256 bytes, the
\* capacity doubles on the result -2 only, no call has a capacity above
\* 65536 bytes; the loop fails with the too-large error when a doubling would
\* pass that ceiling, with the no-payload error on any other result <= 0,
\* and on a result n > 0 returns the first n bytes of the output buffer.
C8_DecodeRetry ==
    LET calls == Len(mn.caps) IN
    /\ calls <= 9 /\ Len(mn.ns) = calls
    /\ \A j \in 1..calls :
          /\ mn.caps[j] = 256 * 2^(j - 1) /\ mn.caps[j] <= 65536
          /\ j < calls => mn.ns[j] = -2
    /\ (mn.pc = "decode_loop" /\ calls > 0) =>
          /\ mn.ns[calls] = -2 /\ mn.cap = 2 * mn.caps[calls] /\ mn.cap <= 65536
    /\ (mn.pc = "decode_loop" /\ calls = 0) => mn.cap = 256
    /\ mn.pc \in {"decode_free", "decode_ret"} /\ calls > 0 =>
          LET n == mn.ns[calls] IN
          /\ n = -2 => /\ mn.decoded.kind = "Err"
                       /\ mn.decoded.text = "Decoded payload too large"
                       /\ 2 * mn.caps[calls] > 65536
          /\ (n <= 0 /\ n # -2) => /\ mn.decoded.kind = "Err"
                                   /\ mn.decoded.text = "No payload decoded"
          /\ n > 0 => /\ mn.decoded.kind = "Ok"
                      /\ BufLen(mn.decoded.bytes) = n
                      /\ BufBytes(mn.decoded.bytes) = SubSeq(mn.written, 1, n)

\* the ninth call, with 65536 bytes, still reported -2
C8_Witness ==
    /\ mn.pc = "decode_free" /\ Len(mn.caps) = 9 /\ mn.caps[9] = 65536
    /\ mn.decoded.text = "Decoded payload too large"

\* C9: after ggwave_init has succeeded the instance is released exactly once
\* before the encode or decode operation returns or the process exits, on
\* every path, and no encode or decode call follows the release.
C9_ReleasedOnce ==
    /\ mn.frees <= 1 /\ ~mn.bad_use
    /\ ~mn.inited => mn.frees = 0 /\ mn.inst = "none"
    /\ (mn.inited /\ mn.pc \in {"decode_ret", "write_wav", "exit"}) =>
          mn.frees = 1 /\ mn.inst = "freed"
    /\ (mn.inited /\ mn.pc \in {"tx_query", "tx_encode", "decode_loop", "decode_free"}) =>
          mn.frees = 0 /\ mn.inst = "live"

\* the size-mismatch exit, with the instance released
C9_Witness ==
    /\ mn.pc = "exit" /\ mn.status = 4 /\ mn.inited /\ mn.frees = 1

=============================================================================
